---- MODULE Spec2Model ----
(***************************************************************************)
(* Merkle Patricia tries of renasami/tree_study.                           *)
(*                                                                         *)
(*   eth_pat.py : MPT17Node / MerklePatriciaTrie17  (17-way, nibble keyed) *)
(*   main.py    : MerklePatriciaNode / MerklePatriciaTree (char keyed)     *)
(*                                                                         *)
(* A behaviour is one run of one of the classes: impl is chosen when the   *)
(* object is constructed and never changes.  Keys are Python strings,      *)
(* modelled as sequences of code points; nibble paths are Python strings   *)
(* of hex digits, modelled as sequences of one-character strings; values   *)
(* are natural numbers and None is the value -1.  A SHA-256 digest is      *)
(* modelled by the sequence of bytes fed to the hasher (SHA-256 taken as   *)
(* injective), a child digest being one token of its parent's input.       *)
(***************************************************************************)
EXTENDS Integers, Sequences, FiniteSets, TLC

\* ------------------------------------------------------------------ bounds
MaxInserts == 3

\* the longest string handed to string_to_nibbles on its own
MaxStrLen == 2

\* the longest nibble string handed to nibbles_to_string on its own
MaxNibbleLen == 3

\* insert calls in a run that splits extensions
MaxSplitInserts == 4

\* ------------------------------------------------------------ Python values
None == -1

NoHash == <<>>

NoError == "ok"

\* keys, as sequences of code points
EmptyKey == <<>>

K_ca == <<99, 97>>

K_cat == <<99, 97, 116>>

K_car == <<99, 97, 114>>

K_card == <<99, 97, 114, 100>>

K_carded == <<99, 97, 114, 100, 101, 100>>

K_dog == <<100, 111, 103>>

K_q == <<113>>

\* the (key, value) pairs an insert call is drawn from
InsertInputs ==
    { <<K_cat, 100>>, <<K_car, 200>>, <<K_card, 300>>, <<K_dog, 400>>,
      <<K_car, 100>>, <<K_q, 100>>, <<EmptyKey, 100>> }

\* the keys a search call is drawn from
SearchKeys ==
    { K_cat, K_car, K_card, K_dog, K_ca, K_carded, K_q, EmptyKey }

\* ------------------------------------------------------------ Python helpers
Hex == <<"0", "1", "2", "3", "4", "5", "6", "7",
         "8", "9", "a", "b", "c", "d", "e", "f">>

\* int(c, 16) for one hex digit
HexVal(c) == CHOOSE i \in 0..15 : Hex[i + 1] = c

RECURSIVE HexDigits(_)
HexDigits(n) ==
    IF n < 16 THEN <<Hex[n + 1]>>
    ELSE HexDigits(n \div 16) \o <<Hex[(n % 16) + 1]>>

\* format(n, '02x'): lower-case hex, zero-padded to at least two digits
Format02x(n) == IF n < 16 THEN <<"0">> \o HexDigits(n) ELSE HexDigits(n)

RECURSIVE DecDigits(_)
DecDigits(n) ==
    IF n < 10 THEN <<Hex[n + 1]>>
    ELSE DecDigits(n \div 10) \o <<Hex[(n % 10) + 1]>>

\* str(v) of a value
Str(v) == IF v = None THEN <<"N", "o", "n", "e">> ELSE DecDigits(v)

\* s[i:] and s[:i] of a Python string (0-based i)
From(s, i) == SubSeq(s, i + 1, Len(s))

Upto(s, i) == SubSeq(s, 1, i)

StartsWith(s, p) == Len(p) <= Len(s) /\ SubSeq(s, 1, Len(p)) = p

\* ------------------------------------------------------------------ eth_pat
RECURSIVE string_to_nibbles(_)
string_to_nibbles(s) ==
    IF s = <<>> THEN <<>>
    ELSE Format02x(Head(s)) \o string_to_nibbles(Tail(s))

\* int(hex_val, 16) of a string of hex digits
RECURSIVE IntOfHex(_)
IntOfHex(h) ==
    IF h = <<>> THEN 0
    ELSE 16 * IntOfHex(SubSeq(h, 1, Len(h) - 1)) + HexVal(h[Len(h)])

\* the loop of nibbles_to_string: chr(int(nibbles[i:i+2], 16)) for i = 0, 2, ...
RECURSIVE DecodePairs(_)
DecodePairs(nibbles) ==
    IF nibbles = <<>> THEN <<>>
    ELSE IF Len(nibbles) = 1 THEN <<IntOfHex(nibbles)>>
    ELSE <<IntOfHex(SubSeq(nibbles, 1, 2))>> \o DecodePairs(From(nibbles, 2))

\* what a raising call returns: nothing
NoString == <<None>>

\* nibbles_to_string without the length check
nibbles_to_string_Unchecked(nibbles) ==
    [value |-> DecodePairs(nibbles), raised |-> NoError]

\* MerklePatriciaTrie17.nibbles_to_string: the string returned and what it raised
nibbles_to_string(nibbles) ==
    IF Len(nibbles) % 2 # 0
    THEN [value |-> NoString, raised |-> "ValueError"]
    ELSE [value |-> DecodePairs(nibbles), raised |-> NoError]

\* common_prefix_length that stops after the first nibble
common_prefix_length_First(s1, s2) ==
    IF s1 # <<>> /\ s2 # <<>> /\ Head(s1) = Head(s2) THEN 1 ELSE 0

RECURSIVE common_prefix_length(_, _)
common_prefix_length(s1, s2) ==
    IF s1 # <<>> /\ s2 # <<>> /\ Head(s1) = Head(s2)
    THEN 1 + common_prefix_length(Tail(s1), Tail(s2))
    ELSE 0

\* a None entry of MPT17Node.branches
NoNode == [node_type |-> "None", branches |-> <<>>, path |-> <<>>, value |-> None]

\* MPT17Node(node_type): 17 empty branches, empty path, value None
MPT17Node(t) ==
    [node_type |-> t, branches |-> [i \in 1..17 |-> NoNode],
     path |-> <<>>, value |-> None]

\* a fresh node with its path and value assigned
LeafNode(p, v) == [MPT17Node("leaf") EXCEPT !.path = p, !.value = v]

\* node.branches[i] = child   (i is the 0-based Python index)
SetBranch(node, i, child) == [node EXCEPT !.branches[i + 1] = child]

Branch(node, i) == node.branches[i + 1]

\* ----------------------------------------------------------- digests
\* the ASCII characters the program writes, and ord() of each
AsciiChars ==
    <<"0", "1", "2", "3", "4", "5", "6", "7", "8", "9", ":",
      "F", "N", "T",
      "a", "b", "c", "d", "e", "f", "h", "i", "k", "l", "n", "o",
      "r", "s", "t", "u", "v", "x">>

AsciiCodes ==
    <<48, 49, 50, 51, 52, 53, 54, 55, 56, 57, 58,
      70, 78, 84,
      97, 98, 99, 100, 101, 102, 104, 105, 107, 108, 110, 111,
      114, 115, 116, 117, 118, 120>>

Ord(c) == AsciiCodes[CHOOSE i \in 1..Len(AsciiChars) : AsciiChars[i] = c]

\* s.encode() of an ASCII string, fed to the hasher: one token per byte
Bytes(s) == [i \in 1..Len(s) |-> [byte |-> Ord(s[i]), sub |-> <<>>]]

\* a child's hexdigest, fed to the hasher of its parent
DigestToken(d) == <<[byte |-> -1, sub |-> d]>>

\* NodeType.<X>.value
TypeValue(t) ==
    CASE t = "blank" -> <<"b", "l", "a", "n", "k">>
      [] t = "leaf" -> <<"l", "e", "a", "f">>
      [] t = "extension" -> <<"e", "x", "t", "e", "n", "s", "i", "o", "n">>
      [] t = "branch" -> <<"b", "r", "a", "n", "c", "h">>

\* Python truthiness of a value (None and 0 are falsy)
Truthy(v) == v # None /\ v # 0

RECURSIVE calculate_hash(_)
RECURSIVE ExtensionFeed(_, _)
RECURSIVE BranchFeed(_, _)

\* for branch in self.branches[i:]: if branch: update(branch.calculate_hash())
ExtensionFeed(node, i) ==
    IF i > 16 THEN <<>>
    ELSE (IF Branch(node, i) # NoNode
          THEN DigestToken(calculate_hash(Branch(node, i)))
          ELSE <<>>) \o ExtensionFeed(node, i + 1)

\* for i, branch in enumerate(self.branches): if branch: update(f"{i}:"), update(hash)
BranchFeed(node, i) ==
    IF i > 16 THEN <<>>
    ELSE (IF Branch(node, i) # NoNode
          THEN Bytes(DecDigits(i) \o <<":">>)
               \o DigestToken(calculate_hash(Branch(node, i)))
          ELSE <<>>) \o BranchFeed(node, i + 1)

\* the leaf's feed after its type: path, then str(value) if value else b""
LeafFeed(node) ==
    Bytes(node.path) \o (IF Truthy(node.value) THEN Bytes(Str(node.value)) ELSE <<>>)

\* the branch's terminator feed: b"value:" + str(value) if value is not None
TerminatorFeed(node) ==
    IF node.value # None
    THEN Bytes(<<"v", "a", "l", "u", "e", ":">>) \o Bytes(Str(node.value))
    ELSE <<>>

calculate_hash(node) ==
    Bytes(TypeValue(node.node_type)) \o
    (CASE node.node_type = "leaf" -> LeafFeed(node)
       [] node.node_type = "extension" -> Bytes(node.path) \o ExtensionFeed(node, 0)
       [] node.node_type = "branch" -> BranchFeed(node, 0) \o TerminatorFeed(node)
       [] OTHER -> <<>>)

\* ----------------------------------------------------------- insertion
\* self.stats[name] += d
Bump(stats, name, d) == [stats EXCEPT ![name] = @ + d]

\* what a call of _insert_recursive yields: the returned node and the stats
\* as the call leaves them, or the exception it raised (node is then the
\* argument, which the call has not touched)
Returned(node, stats) == [node |-> node, stats |-> stats, raised |-> NoError]

Raised(node, stats, e) == [node |-> node, stats |-> stats, raised |-> e]

\* LeafSplitPrefix that forgets the old value when the old path is used up
LeafSplitPrefix_NoTerminator(node, remaining_nibbles, value, common_len, stats) ==
    LET old_remaining == From(node.path, common_len)
        new_remaining == From(remaining_nibbles, common_len)
        extension == [MPT17Node("extension") EXCEPT !.path = Upto(node.path, common_len)]
        b0 == MPT17Node("branch")
        b1 == IF old_remaining # <<>>
              THEN SetBranch(b0, HexVal(old_remaining[1]),
                             LeafNode(Tail(old_remaining), node.value))
              ELSE b0
        b2 == IF new_remaining # <<>>
              THEN SetBranch(b1, HexVal(new_remaining[1]),
                             LeafNode(Tail(new_remaining), value))
              ELSE [b1 EXCEPT !.value = value]
        s1 == Bump(stats, "extension_nodes", 1)
        s2 == IF new_remaining # <<>> THEN Bump(s1, "leaf_nodes", 1) ELSE s1
    IN  Returned(SetBranch(extension, 0, b2), Bump(s2, "leaf_nodes", -1))

\* LEAF, lines 204-256: common_len > 0, the branch goes under a new extension
LeafSplitPrefix(node, remaining_nibbles, value, common_len, stats) ==
    LET old_remaining == From(node.path, common_len)
        new_remaining == From(remaining_nibbles, common_len)
        extension == [MPT17Node("extension") EXCEPT !.path = Upto(node.path, common_len)]
        b0 == MPT17Node("branch")
        b1 == IF old_remaining # <<>>
              THEN SetBranch(b0, HexVal(old_remaining[1]),
                             LeafNode(Tail(old_remaining), node.value))
              ELSE [b0 EXCEPT !.value = node.value]
        b2 == IF new_remaining # <<>>
              THEN SetBranch(b1, HexVal(new_remaining[1]),
                             LeafNode(Tail(new_remaining), value))
              ELSE [b1 EXCEPT !.value = value]
        s1 == Bump(stats, "extension_nodes", 1)
        s2 == IF new_remaining # <<>> THEN Bump(s1, "leaf_nodes", 1) ELSE s1
    IN  Returned(SetBranch(extension, 0, b2), Bump(s2, "leaf_nodes", -1))

\* LeafSplitDirect whose leaves keep the nibble that selects their slot
LeafSplitDirect_KeepsNibble(node, remaining_nibbles, value, stats) ==
    IF node.path = <<>> \/ remaining_nibbles = <<>>
    THEN Raised(node, stats, "IndexError")
    ELSE LET b1 == SetBranch(MPT17Node("branch"), HexVal(node.path[1]),
                             LeafNode(node.path, node.value))
             b2 == SetBranch(b1, HexVal(remaining_nibbles[1]),
                             LeafNode(remaining_nibbles, value))
         IN  Returned(b2, Bump(stats, "leaf_nodes", 1))

\* LEAF, lines 257-277: common_len == 0, node.path[0] and remaining_nibbles[0]
\* are read without a check
LeafSplitDirect(node, remaining_nibbles, value, stats) ==
    IF node.path = <<>> \/ remaining_nibbles = <<>>
    THEN Raised(node, stats, "IndexError")
    ELSE LET b1 == SetBranch(MPT17Node("branch"), HexVal(node.path[1]),
                             LeafNode(Tail(node.path), node.value))
             b2 == SetBranch(b1, HexVal(remaining_nibbles[1]),
                             LeafNode(Tail(remaining_nibbles), value))
         IN  Returned(b2, Bump(stats, "leaf_nodes", 1))

\* InsertLeaf that counts the leaf of an exact match as a new leaf
InsertLeaf_CountsMatch(node, remaining_nibbles, value, stats) ==
    LET common_len == common_prefix_length(node.path, remaining_nibbles)
    IN  IF common_len = Len(node.path) /\ Len(node.path) = Len(remaining_nibbles)
        THEN Returned([node EXCEPT !.value = value], Bump(stats, "leaf_nodes", 1))
        ELSE IF common_len > 0
             THEN LeafSplitPrefix(node, remaining_nibbles, value, common_len,
                                  Bump(stats, "branch_nodes", 1))
             ELSE LeafSplitDirect(node, remaining_nibbles, value,
                                  Bump(stats, "branch_nodes", 1))

\* LEAF, lines 181-277
InsertLeaf(node, remaining_nibbles, value, stats) ==
    LET common_len == common_prefix_length(node.path, remaining_nibbles)
    IN  IF common_len = Len(node.path) /\ Len(node.path) = Len(remaining_nibbles)
        THEN Returned([node EXCEPT !.value = value], stats)
        ELSE IF common_len > 0
             THEN LeafSplitPrefix(node, remaining_nibbles, value, common_len,
                                  Bump(stats, "branch_nodes", 1))
             ELSE LeafSplitDirect(node, remaining_nibbles, value,
                                  Bump(stats, "branch_nodes", 1))

\* ExtensionSplit that keeps an extension above the old child even when no
\* nibble is left for its path
ExtensionSplit_EmptyExtension(node, remaining_nibbles, value, common_len, stats) ==
    LET s0 == Bump(stats, "branch_nodes", 1)
        old_remaining == From(node.path, common_len)
        new_remaining == From(remaining_nibbles, common_len)
        old_nibble == HexVal(old_remaining[1])
        shortened_extension ==
            SetBranch([MPT17Node("extension") EXCEPT !.path = Tail(old_remaining)],
                      0, Branch(node, 0))
        b1 == SetBranch(MPT17Node("branch"), old_nibble, shortened_extension)
    IN  IF common_len > 0
        THEN LET new_extension ==
                     [MPT17Node("extension") EXCEPT !.path = Upto(node.path, common_len)]
                 s1 == Bump(s0, "extension_nodes", 1)
             IN  IF new_remaining # <<>>
                 THEN Returned(SetBranch(new_extension, 0,
                                   SetBranch(b1, HexVal(new_remaining[1]),
                                             LeafNode(Tail(new_remaining), value))),
                               Bump(s1, "leaf_nodes", 1))
                 ELSE Returned(SetBranch(new_extension, 0, [b1 EXCEPT !.value = value]),
                               s1)
        ELSE IF remaining_nibbles = <<>>
             THEN Raised(node, s0, "IndexError")
             ELSE Returned(SetBranch(b1, HexVal(remaining_nibbles[1]),
                                     LeafNode(Tail(remaining_nibbles), value)),
                           Bump(s0, "leaf_nodes", 1))

\* EXTENSION, lines 298-358: the remaining nibbles leave the extension's path
\* after common_len < len(node.path) nibbles
ExtensionSplit(node, remaining_nibbles, value, common_len, stats) ==
    LET s0 == Bump(stats, "branch_nodes", 1)
        old_remaining == From(node.path, common_len)
        new_remaining == From(remaining_nibbles, common_len)
        old_nibble == HexVal(old_remaining[1])
        shortened_extension ==
            SetBranch([MPT17Node("extension") EXCEPT !.path = Tail(old_remaining)],
                      0, Branch(node, 0))
        b1 == IF Len(old_remaining) > 1
              THEN SetBranch(MPT17Node("branch"), old_nibble, shortened_extension)
              ELSE SetBranch(MPT17Node("branch"), old_nibble, Branch(node, 0))
    IN  IF common_len > 0
        THEN LET new_extension ==
                     [MPT17Node("extension") EXCEPT !.path = Upto(node.path, common_len)]
                 s1 == Bump(s0, "extension_nodes", 1)
             IN  IF new_remaining # <<>>
                 THEN Returned(SetBranch(new_extension, 0,
                                   SetBranch(b1, HexVal(new_remaining[1]),
                                             LeafNode(Tail(new_remaining), value))),
                               Bump(s1, "leaf_nodes", 1))
                 ELSE Returned(SetBranch(new_extension, 0, [b1 EXCEPT !.value = value]),
                               s1)
        ELSE IF remaining_nibbles = <<>>
             THEN Raised(node, s0, "IndexError")
             ELSE Returned(SetBranch(b1, HexVal(remaining_nibbles[1]),
                                     LeafNode(Tail(remaining_nibbles), value)),
                           Bump(s0, "leaf_nodes", 1))

RECURSIVE _insert_recursive(_, _, _, _)

\* InsertBranch that resets the terminator when it stores into a slot
InsertBranch_DropsTerminator(node, remaining_nibbles, value, stats) ==
    IF remaining_nibbles = <<>>
    THEN Returned([node EXCEPT !.value = value], stats)
    ELSE LET nibble == HexVal(remaining_nibbles[1])
             remaining == Tail(remaining_nibbles)
             cleared == [node EXCEPT !.value = None]
         IN  IF Branch(node, nibble) = NoNode
             THEN Returned(SetBranch(cleared, nibble, LeafNode(remaining, value)),
                           Bump(stats, "leaf_nodes", 1))
             ELSE LET r == _insert_recursive(Branch(node, nibble),
                                             remaining, value, stats)
                  IN  IF r.raised # NoError
                      THEN Raised(node, r.stats, r.raised)
                      ELSE Returned(SetBranch(cleared, nibble, r.node), r.stats)

\* BRANCH, lines 360-392
InsertBranch(node, remaining_nibbles, value, stats) ==
    IF remaining_nibbles = <<>>
    THEN Returned([node EXCEPT !.value = value], stats)
    ELSE LET nibble == HexVal(remaining_nibbles[1])
             remaining == Tail(remaining_nibbles)
         IN  IF Branch(node, nibble) = NoNode
             THEN Returned(SetBranch(node, nibble, LeafNode(remaining, value)),
                           Bump(stats, "leaf_nodes", 1))
             ELSE LET r == _insert_recursive(Branch(node, nibble),
                                             remaining, value, stats)
                  IN  IF r.raised # NoError
                      THEN Raised(node, r.stats, r.raised)
                      ELSE Returned(SetBranch(node, nibble, r.node), r.stats)

_insert_recursive(node, remaining_nibbles, value, stats) ==
    CASE node.node_type = "leaf" ->
           InsertLeaf(node, remaining_nibbles, value, stats)
      [] node.node_type = "extension" ->
           LET common_len == common_prefix_length(node.path, remaining_nibbles)
           IN  IF common_len = Len(node.path)
               THEN IF Branch(node, 0) # NoNode
                    THEN LET r == _insert_recursive(Branch(node, 0),
                                      From(remaining_nibbles, common_len), value, stats)
                         IN  IF r.raised # NoError
                             THEN Raised(node, r.stats, r.raised)
                             ELSE Returned(SetBranch(node, 0, r.node), r.stats)
                    ELSE Returned(node, stats)
               ELSE ExtensionSplit(node, remaining_nibbles, value, common_len, stats)
      [] node.node_type = "branch" ->
           InsertBranch(node, remaining_nibbles, value, stats)
      [] OTHER -> Returned(node, stats)

\* MerklePatriciaTrie17.__init__
InitialStats ==
    [total_nodes |-> 0, branch_nodes |-> 0, extension_nodes |-> 0,
     leaf_nodes |-> 0, blank_nodes |-> 1]

\* NewTrie17 that hashes the blank root at construction
NewTrie17_Hashed ==
    [root |-> MPT17Node("blank"), hash |-> calculate_hash(MPT17Node("blank")),
     stats |-> InitialStats, insertion_count |-> 0]

\* the trie object: root, root.hash, stats and insertion_count
NewTrie17 ==
    [root |-> MPT17Node("blank"), hash |-> NoHash,
     stats |-> InitialStats, insertion_count |-> 0]

\* InsertIntoBlank that leaves the new leaf's path empty
InsertIntoBlank_NoPath(t, nibbles, value) ==
    [t EXCEPT !.root = LeafNode(<<>>, value),
              !.stats = Bump(Bump(t.stats, "blank_nodes", -1), "leaf_nodes", 1)]

\* insert, lines 141-152: the root is BLANK and becomes a leaf
InsertIntoBlank(t, nibbles, value) ==
    [t EXCEPT !.root = LeafNode(nibbles, value),
              !.stats = Bump(Bump(t.stats, "blank_nodes", -1), "leaf_nodes", 1)]

\* insert as it would be if it dropped the cached root hash before descending
insert_InvalidatesHash(t, key, value) ==
    LET t0 == [t EXCEPT !.insertion_count = @ + 1]
        nibbles == string_to_nibbles(key)
    IN  IF t.root.node_type = "blank"
        THEN LET t1 == InsertIntoBlank(t0, nibbles, value)
             IN  [trie |-> [t1 EXCEPT !.hash = calculate_hash(t1.root)],
                  raised |-> NoError]
        ELSE LET r == _insert_recursive(t.root, nibbles, value, t.stats)
             IN  IF r.raised # NoError
                 THEN [trie |-> [t0 EXCEPT !.stats = r.stats, !.hash = NoHash],
                       raised |-> r.raised]
                 ELSE [trie |-> [t0 EXCEPT !.root = r.node, !.stats = r.stats,
                                           !.hash = calculate_hash(r.node)],
                       raised |-> NoError]

\* MerklePatriciaTrie17.insert: the trie after the call and what it raised
insert(t, key, value) ==
    LET t0 == [t EXCEPT !.insertion_count = @ + 1]
        nibbles == string_to_nibbles(key)
    IN  IF t.root.node_type = "blank"
        THEN LET t1 == InsertIntoBlank(t0, nibbles, value)
             IN  [trie |-> [t1 EXCEPT !.hash = calculate_hash(t1.root)],
                  raised |-> NoError]
        ELSE LET r == _insert_recursive(t.root, nibbles, value, t.stats)
             IN  IF r.raised # NoError
                 THEN [trie |-> [t0 EXCEPT !.stats = r.stats], raised |-> r.raised]
                 ELSE [trie |-> [t0 EXCEPT !.root = r.node, !.stats = r.stats,
                                           !.hash = calculate_hash(r.node)],
                       raised |-> NoError]

\* ----------------------------------------------------------- lookup
\* LeafMatches that accepts a leaf whose path is a prefix of the remainder
LeafMatches_Prefix(node, remaining_nibbles) ==
    StartsWith(remaining_nibbles, node.path)

\* LEAF, lines 406-409
LeafMatches(node, remaining_nibbles) == node.path = remaining_nibbles

RECURSIVE _search_recursive(_, _)
_search_recursive(node, remaining_nibbles) ==
    CASE node = NoNode \/ node.node_type = "blank" -> None
      [] node.node_type = "leaf" ->
           IF LeafMatches(node, remaining_nibbles) THEN node.value ELSE None
      [] node.node_type = "extension" ->
           IF StartsWith(remaining_nibbles, node.path)
           THEN _search_recursive(Branch(node, 0),
                                  From(remaining_nibbles, Len(node.path)))
           ELSE None
      [] node.node_type = "branch" ->
           IF remaining_nibbles = <<>> THEN node.value
           ELSE _search_recursive(Branch(node, HexVal(remaining_nibbles[1])),
                                  Tail(remaining_nibbles))
      [] OTHER -> None

\* MerklePatriciaTrie17.search: the value returned and what it raised
search(t, key) ==
    [value |-> _search_recursive(t.root, string_to_nibbles(key)), raised |-> NoError]

\* ---------------------------------------------------------------- ver_17.py
\* MerklePatriciaTrie17.__init__ of ver_17.py: root, root.hash and stats
v17_InitialStats ==
    [total_nodes |-> 0, branch_nodes |-> 0, extension_nodes |-> 0, leaf_nodes |-> 0]

v17_NewTrie17 ==
    [root |-> MPT17Node("blank"), hash |-> NoHash, stats |-> v17_InitialStats]

\* LEAF of ver_17.py, lines 135-195: the split of a leaf. The branch is new,
\* and so is the extension above it when common_len > 0
v17_LeafSplit(node, remaining_nibbles, value, common_len, stats) ==
    LET s0 == Bump(stats, "branch_nodes", 1)
        old_remaining == From(node.path, common_len)
        new_remaining == From(remaining_nibbles, common_len)
        b0 == MPT17Node("branch")
    IN  IF common_len > 0
        THEN LET extension ==
                     [MPT17Node("extension") EXCEPT !.path = Upto(node.path, common_len)]
                 b1 == IF old_remaining # <<>>
                       THEN SetBranch(b0, HexVal(old_remaining[1]),
                                      LeafNode(Tail(old_remaining), node.value))
                       ELSE [b0 EXCEPT !.value = node.value]
                 b2 == IF new_remaining # <<>>
                       THEN SetBranch(b1, HexVal(new_remaining[1]),
                                      LeafNode(Tail(new_remaining), value))
                       ELSE [b1 EXCEPT !.value = value]
                 s1 == Bump(s0, "extension_nodes", 1)
             IN  Returned(SetBranch(extension, 0, b2),
                          IF new_remaining # <<>> THEN Bump(s1, "leaf_nodes", 1) ELSE s1)
        ELSE IF node.path = <<>> \/ remaining_nibbles = <<>>
             THEN Raised(node, s0, "IndexError")
             ELSE Returned(SetBranch(SetBranch(b0, HexVal(node.path[1]),
                                         LeafNode(Tail(node.path), node.value)),
                                     HexVal(remaining_nibbles[1]),
                                     LeafNode(Tail(remaining_nibbles), value)),
                           Bump(s0, "leaf_nodes", 1))

\* the node _insert_recursive returns is a new object, not its argument
\* modified in place: a leaf that is split
v17_ReturnsNewNode(node, remaining_nibbles) ==
    node.node_type = "leaf" /\ node.path # remaining_nibbles

\* _insert_recursive with the extension split of eth_pat.py in place of the
\* omitted one
v17_insert_recursive_Complete(node, remaining_nibbles, value, stats) ==
    _insert_recursive(node, remaining_nibbles, value, stats)

\* MerklePatriciaTrie17._insert_recursive of ver_17.py
RECURSIVE v17_insert_recursive(_, _, _, _)
v17_insert_recursive(node, remaining_nibbles, value, stats) ==
    CASE node.node_type = "leaf" ->
           LET common_len == common_prefix_length(node.path, remaining_nibbles)
           IN  IF common_len = Len(node.path) /\ Len(node.path) = Len(remaining_nibbles)
               THEN Returned([node EXCEPT !.value = value], stats)
               ELSE v17_LeafSplit(node, remaining_nibbles, value, common_len, stats)
      [] node.node_type = "extension" ->
           LET common_len == common_prefix_length(node.path, remaining_nibbles)
           IN  IF common_len = Len(node.path) /\ Branch(node, 0) # NoNode
               THEN LET r == v17_insert_recursive(Branch(node, 0),
                                 From(remaining_nibbles, common_len), value, stats)
                    IN  IF r.raised # NoError
                        THEN Raised(node, r.stats, r.raised)
                        ELSE Returned(SetBranch(node, 0, r.node), r.stats)
               ELSE Returned(node, stats)
      [] node.node_type = "branch" ->
           IF remaining_nibbles = <<>>
           THEN Returned([node EXCEPT !.value = value], stats)
           ELSE LET nibble == HexVal(remaining_nibbles[1])
                    remaining == Tail(remaining_nibbles)
                IN  IF Branch(node, nibble) = NoNode
                    THEN Returned(SetBranch(node, nibble, LeafNode(remaining, value)),
                                  Bump(stats, "leaf_nodes", 1))
                    ELSE LET r == v17_insert_recursive(Branch(node, nibble),
                                                       remaining, value, stats)
                         IN  IF r.raised # NoError
                             THEN Raised(node, r.stats, r.raised)
                             ELSE Returned(SetBranch(node, nibble, r.node), r.stats)
      [] OTHER -> Returned(node, stats)

\* MerklePatriciaTrie17.insert of ver_17.py: the trie after the call and what
\* it raised. Line 114 calls _insert_recursive and drops what it returns, so
\* self.root changes only where the call modified the root object in place
v17_insert(t, key, value) ==
    LET nibbles == string_to_nibbles(key)
    IN  IF t.root.node_type = "blank"
        THEN LET root == LeafNode(nibbles, value)
             IN  [trie |-> [root |-> root, hash |-> calculate_hash(root),
                            stats |-> Bump(t.stats, "leaf_nodes", 1)],
                  raised |-> NoError]
        ELSE LET r == v17_insert_recursive(t.root, nibbles, value, t.stats)
                 root == IF v17_ReturnsNewNode(t.root, nibbles) THEN t.root ELSE r.node
             IN  IF r.raised # NoError
                 THEN [trie |-> [t EXCEPT !.stats = r.stats], raised |-> r.raised]
                 ELSE [trie |-> [root |-> root, hash |-> calculate_hash(root),
                                 stats |-> r.stats],
                       raised |-> NoError]

\* MerklePatriciaTrie17.search of ver_17.py
v17_search(t, key) ==
    [value |-> _search_recursive(t.root, string_to_nibbles(key)), raised |-> NoError]

\* ------------------------------------------------------------------ main.py
\* MerklePatriciaNode(): no children, not an end of word, value None
MerklePatriciaNode == [children |-> <<>>, is_end_of_word |-> FALSE, value |-> None]

\* node.children[first_char] = (path, child)
SetChild(node, first_char, path, child) ==
    [node EXCEPT !.children =
        [c \in (DOMAIN node.children) \cup {first_char} |->
            IF c = first_char THEN [path |-> path, child |-> child]
            ELSE node.children[c]]]

\* a node that ends a word with the given value
EndOfWord(node, value) == [node EXCEPT !.is_end_of_word = TRUE, !.value = value]

RECURSIVE _insert_helper(_, _, _)
_insert_helper(node, remaining_key, value) ==
    IF remaining_key = <<>> THEN EndOfWord(node, value)
    ELSE LET first_char == remaining_key[1]
         IN  IF first_char \in DOMAIN node.children
             THEN LET full_path == node.children[first_char].path
                      child == node.children[first_char].child
                      common_len == common_prefix_length(remaining_key, full_path)
                      old_remaining == From(full_path, common_len)
                      new_remaining == From(remaining_key, common_len)
                      mid_node ==
                          IF old_remaining # <<>>
                          THEN SetChild(MerklePatriciaNode, old_remaining[1],
                                        old_remaining, child)
                          ELSE child
                  IN  IF common_len = Len(full_path)
                      THEN SetChild(node, first_char, full_path,
                                    _insert_helper(child, new_remaining, value))
                      ELSE SetChild(node, first_char, Upto(full_path, common_len),
                                    IF new_remaining # <<>>
                                    THEN _insert_helper(mid_node, new_remaining, value)
                                    ELSE EndOfWord(mid_node, value))
             ELSE SetChild(node, first_char, remaining_key,
                           EndOfWord(MerklePatriciaNode, value))

\* str(True) / str(False)
StrBool(b) == IF b THEN <<"T", "r", "u", "e">> ELSE <<"F", "a", "l", "s", "e">>

\* chr(n).encode(): the UTF-8 bytes of one code point
Utf8(n) ==
    IF n < 128 THEN <<n>>
    ELSE IF n < 2048 THEN <<192 + (n \div 64), 128 + (n % 64)>>
    ELSE IF n < 65536
         THEN <<224 + (n \div 4096), 128 + ((n \div 64) % 64), 128 + (n % 64)>>
         ELSE <<240 + (n \div 262144), 128 + ((n \div 4096) % 64),
                128 + ((n \div 64) % 64), 128 + (n % 64)>>

\* path.encode() of a key string, fed to the hasher
RECURSIVE CharBytes(_)
CharBytes(path) ==
    IF path = <<>> THEN <<>>
    ELSE [i \in 1..Len(Utf8(Head(path))) |-> [byte |-> Utf8(Head(path))[i], sub |-> <<>>]]
         \o CharBytes(Tail(path))

Min(S) == CHOOSE x \in S : \A y \in S : x <= y

RECURSIVE mpt_calculate_hash(_)
RECURSIVE ChildrenFeed(_, _)

\* for first_char, (path, child) in sorted(self.children.items()), over the
\* first characters in S
ChildrenFeed(node, S) ==
    IF S = {} THEN <<>>
    ELSE LET c == Min(S)
         IN  CharBytes(node.children[c].path)
             \o DigestToken(mpt_calculate_hash(node.children[c].child))
             \o ChildrenFeed(node, S \ {c})

\* MerklePatriciaNode.calculate_hash(force_recalculate=True)
mpt_calculate_hash(node) ==
    (IF node.value # None THEN Bytes(Str(node.value)) ELSE <<>>)
    \o ChildrenFeed(node, DOMAIN node.children)
    \o Bytes(StrBool(node.is_end_of_word))

\* MerklePatriciaTree.__init__: root, root.hash and insertion_count
NewTree == [root |-> MerklePatriciaNode, hash |-> NoHash, insertion_count |-> 0]

\* MerklePatriciaTree.insert: the tree after the call and what it raised
mpt_insert(t, key, value) ==
    IF key = <<>>
    THEN [tree |-> t, raised |-> "ValueError"]
    ELSE LET r == _insert_helper(t.root, key, value)
         IN  [tree |-> [root |-> r, hash |-> mpt_calculate_hash(r),
                        insertion_count |-> t.insertion_count + 1],
              raised |-> NoError]

\* the while loop of MerklePatriciaTree.search
RECURSIVE SearchLoop(_, _)
SearchLoop(node, key) ==
    IF key = <<>>
    THEN (IF node.is_end_of_word THEN node.value ELSE None)
    ELSE IF key[1] \notin DOMAIN node.children THEN None
         ELSE IF StartsWith(key, node.children[key[1]].path)
              THEN SearchLoop(node.children[key[1]].child,
                              From(key, Len(node.children[key[1]].path)))
              ELSE None

\* mpt_search that rejects the empty key the way insert does
mpt_search_Raises(t, key) ==
    IF key = <<>> THEN [value |-> None, raised |-> "ValueError"]
    ELSE [value |-> SearchLoop(t.root, key), raised |-> NoError]

\* MerklePatriciaTree.search: the value returned and what it raised
mpt_search(t, key) ==
    [value |-> IF key = <<>> THEN None ELSE SearchLoop(t.root, key),
     raised |-> NoError]

\* a verify_integrity that compares and leaves root.hash as it was
mpt_verify_integrity_ReadOnly(t) ==
    [tree |-> t, value |-> (t.hash = mpt_calculate_hash(t.root))]

\* MerklePatriciaTree.verify_integrity: the tree after the call (the
\* recomputed digest is stored in root.hash) and the boolean returned
mpt_verify_integrity(t) ==
    LET new_hash == mpt_calculate_hash(t.root)
    IN  [tree |-> [t EXCEPT !.hash = new_hash], value |-> (t.hash = new_hash)]

\* ----------------------------------------------------------------- main3.py
\* MerklePatriciaTree._insert_helper of main3.py, the same statements as
\* main.py's without the console output
m3_insert_helper(node, remaining_key, value) ==
    _insert_helper(node, remaining_key, value)

\* MerklePatriciaNode.calculate_hash(force_recalculate=True) of main3.py:
\* value, then path and digest of every child in sorted order, then the flag
m3_calculate_hash(node) == mpt_calculate_hash(node)

\* an insert that leaves the root digest of the previous contents in place
m3_insert_Unhashed(t, key, value) ==
    [tree |-> [t EXCEPT !.root = m3_insert_helper(t.root, key, value)],
     raised |-> NoError]

\* MerklePatriciaTree.insert of main3.py: no key check, no counter
m3_insert(t, key, value) ==
    LET r == m3_insert_helper(t.root, key, value)
    IN  [tree |-> [t EXCEPT !.root = r, !.hash = m3_calculate_hash(r)],
         raised |-> NoError]

\* MerklePatriciaTree.search of main3.py
m3_search(t, key) == [value |-> SearchLoop(t.root, key), raised |-> NoError]

\* verify_integrity that compares without storing the new digest's inputs:
\* it trusts the stored digest
m3_verify_integrity_Trusting(t) == [tree |-> t, value |-> TRUE]

\* MerklePatriciaTree.verify_integrity of main3.py
m3_verify_integrity(t) ==
    LET new_hash == m3_calculate_hash(t.root)
    IN  [tree |-> [t EXCEPT !.hash = new_hash], value |-> (t.hash = new_hash)]

\* TrueBasicRadixNode.__init__
TrueBasicRadixNode == [children |-> <<>>, is_end_of_word |-> FALSE, value |-> None]

\* TrueBasicRadixTree.insert, from the node reached so far
RECURSIVE basic_insert(_, _, _)
basic_insert(node, key, value) ==
    IF key = <<>> THEN EndOfWord(node, value)
    ELSE LET char == Head(key)
             child == IF char \in DOMAIN node.children
                      THEN node.children[char] ELSE TrueBasicRadixNode
         IN  [node EXCEPT !.children =
                 [c \in (DOMAIN node.children) \cup {char} |->
                     IF c = char THEN basic_insert(child, Tail(key), value)
                     ELSE node.children[c]]]

\* TrueBasicRadixTree.search, from the node reached so far
RECURSIVE basic_search(_, _)
basic_search(node, key) ==
    IF key = <<>> THEN (IF node.is_end_of_word THEN node.value ELSE None)
    ELSE IF Head(key) \notin DOMAIN node.children THEN None
         ELSE basic_search(node.children[Head(key)], Tail(key))

\* PatriciaNode.__init__
PatriciaNode == [children |-> <<>>, is_end_of_word |-> FALSE, value |-> None]

\* PatriciaTree.insert: _insert_helper from the root, the same statements as
\* MerklePatriciaTree._insert_helper
patricia_insert(root, key, value) == _insert_helper(root, key, value)

\* a search that follows the edge of the first character without comparing
\* the rest of the edge's path
RECURSIVE patricia_search_FirstChar(_, _)
patricia_search_FirstChar(root, key) ==
    IF key = <<>> THEN (IF root.is_end_of_word THEN root.value ELSE None)
    ELSE IF key[1] \notin DOMAIN root.children THEN None
         ELSE patricia_search_FirstChar(root.children[key[1]].child,
                                        From(key, Len(root.children[key[1]].path)))

\* PatriciaTree.search
patricia_search(root, key) == SearchLoop(root, key)

\* the nodes of a tree, each named by the first characters of the edges
\* that lead to it from the root
RECURSIVE NodeAddrs(_)
NodeAddrs(node) ==
    {<<>>} \cup UNION { { <<c>> \o a : a \in NodeAddrs(node.children[c].child) }
                        : c \in DOMAIN node.children }

RECURSIVE NodeAt(_, _)
NodeAt(node, addr) ==
    IF addr = <<>> THEN node
    ELSE NodeAt(node.children[Head(addr)].child, Tail(addr))

\* child.value = w, written into the node at addr from outside the class
RECURSIVE SetValueAt(_, _, _)
SetValueAt(node, addr, w) ==
    IF addr = <<>> THEN [node EXCEPT !.value = w]
    ELSE [node EXCEPT !.children[Head(addr)].child = SetValueAt(@, Tail(addr), w)]

\* ------------------------------------------------------------ state machine
VARIABLES
    impl,     \* the class the program runs: "eth_pat" or "main"
    trie,     \* the MerklePatriciaTrie17 object of eth_pat.py
    tree,     \* the MerklePatriciaTree object of main.py
    calls,    \* the insert calls made so far: key, value, exception raised
    result,   \* the last call: its operation, key, returned value, exception
    codec,    \* the last call of string_to_nibbles / nibbles_to_string
    tampered, \* out-of-band writes: "never", "pending", "checked", "absorbed"
    comparison, \* the basic and patricia trees of run_comprehensive_comparison
    frame     \* the call of _insert_recursive / _search_recursive in progress

vars == <<impl, trie, tree, calls, result, codec, tampered, comparison, frame>>

Impls == {"eth_pat", "main"}

NoCall == [op |-> "none", key |-> <<>>, value |-> None, raised |-> NoError]

NoCodecCall ==
    [op |-> "none", s |-> <<>>, nibbles |-> <<>>, out |-> <<>>,
     raised |-> NoError, round_trip |-> FALSE]

\* the program has constructed an object of class i and called nothing yet
\* basic = TrueBasicRadixTree(), patricia = PatriciaTree(), nothing searched
NoComparison ==
    [basic |-> TrueBasicRadixNode, patricia |-> PatriciaNode, found |-> <<>>]

\* no call of insert or search is in progress
NoFrame ==
    [op |-> "none", key |-> <<>>, value |-> None, node |-> NoNode,
     remaining |-> <<>>, depth |-> 0,
     outcome |-> [trie |-> NewTrie17, raised |-> NoError]]

Constructed(i) ==
    /\ impl = i
    /\ trie = NewTrie17
    /\ tree = NewTree
    /\ calls = <<>>
    /\ result = NoCall
    /\ codec = NoCodecCall
    /\ tampered = "never"
    /\ comparison = NoComparison
    /\ frame = NoFrame

Init == \E i \in Impls : Constructed(i)

\* trie.insert(key, value)
Insert17Within(n, key, value) ==
    /\ impl = "eth_pat"
    /\ Len(calls) < n
    /\ LET r == insert(trie, key, value)
       IN  /\ trie' = r.trie
           /\ result' = [op |-> "insert", key |-> key, value |-> None,
                         raised |-> r.raised]
    /\ calls' = Append(calls, [key |-> key, value |-> value,
                                raised |-> insert(trie, key, value).raised])
    /\ UNCHANGED <<impl, tree, codec, tampered, comparison, frame>>

\* trie.insert(key, value), one of at most MaxInserts calls
Insert17(key, value) == Insert17Within(MaxInserts, key, value)

\* trie.search(key)
Search17(key) ==
    /\ impl = "eth_pat"
    /\ LET r == search(trie, key)
       IN  result' = [op |-> "search", key |-> key, value |-> r.value,
                      raised |-> r.raised]
    /\ UNCHANGED <<impl, trie, tree, calls, codec, tampered, comparison, frame>>

\* tree.insert(key, value)
InsertMPT(key, value) ==
    /\ impl = "main"
    /\ Len(calls) < MaxInserts
    /\ LET r == mpt_insert(tree, key, value)
       IN  /\ tree' = r.tree
           /\ result' = [op |-> "insert", key |-> key, value |-> None,
                         raised |-> r.raised]
    /\ calls' = Append(calls, [key |-> key, value |-> value,
                                raised |-> mpt_insert(tree, key, value).raised])
    /\ tampered' = (IF tampered = "never" THEN "never" ELSE "absorbed")
    /\ UNCHANGED <<impl, trie, codec, comparison, frame>>

\* tree.search(key)
SearchMPT(key) ==
    /\ impl = "main"
    /\ LET r == mpt_search(tree, key)
       IN  result' = [op |-> "search", key |-> key, value |-> r.value,
                      raised |-> r.raised]
    /\ UNCHANGED <<impl, trie, tree, calls, codec, tampered, comparison, frame>>

Next ==
    \/ \E in \in InsertInputs : Insert17(in[1], in[2])
    \/ \E k \in SearchKeys : Search17(k)
    \/ \E in \in InsertInputs : InsertMPT(in[1], in[2])
    \/ \E k \in SearchKeys : SearchMPT(k)

Spec == Init /\ [][Next]_vars

TypeOK == impl \in Impls /\ Len(calls) <= MaxInserts

\* ---------------------------------------------------------------- the codec
\* the characters of the strings encoded: LF, 0x12, 0x34, 'a', U+0100, U+1234
CodecChars == {10, 18, 52, 97, 256, 4660}

RECURSIVE SeqsUpTo(_, _)
SeqsUpTo(S, n) ==
    IF n = 0 THEN {<<>>}
    ELSE SeqsUpTo(S, n - 1)
         \cup { Append(q, x) : q \in { r \in SeqsUpTo(S, n - 1) : Len(r) = n - 1 }, x \in S }

CodecStrings == SeqsUpTo(CodecChars, MaxStrLen)

NibbleStrings == SeqsUpTo({"0", "1", "6", "a"}, MaxNibbleLen)

\* MerklePatriciaTrie17.string_to_nibbles(s)
StringToNibbles(s) ==
    /\ impl = "codec"
    /\ codec' = [op |-> "string_to_nibbles", s |-> s,
                 nibbles |-> string_to_nibbles(s), out |-> <<>>,
                 raised |-> NoError, round_trip |-> FALSE]
    /\ UNCHANGED <<impl, trie, tree, calls, result, tampered, comparison, frame>>

\* MerklePatriciaTrie17.nibbles_to_string(nibbles) on a nibble string
NibblesToString(nibbles) ==
    /\ impl = "codec"
    /\ LET r == nibbles_to_string(nibbles)
       IN  codec' = [op |-> "nibbles_to_string", s |-> <<>>, nibbles |-> nibbles,
                     out |-> r.value, raised |-> r.raised, round_trip |-> FALSE]
    /\ UNCHANGED <<impl, trie, tree, calls, result, tampered, comparison, frame>>

\* nibbles_to_string(string_to_nibbles(s)): the decoding of what the last
\* call encoded
DecodeEncoded ==
    /\ impl = "codec"
    /\ codec.op = "string_to_nibbles"
    /\ LET r == nibbles_to_string(codec.nibbles)
       IN  codec' = [op |-> "nibbles_to_string", s |-> codec.s,
                     nibbles |-> codec.nibbles, out |-> r.value,
                     raised |-> r.raised, round_trip |-> TRUE]
    /\ UNCHANGED <<impl, trie, tree, calls, result, tampered, comparison, frame>>

NextCodec ==
    \/ \E s \in CodecStrings : StringToNibbles(s)
    \/ \E n \in NibbleStrings : NibblesToString(n)
    \/ DecodeEncoded

SpecCodec == Constructed("codec") /\ [][NextCodec]_vars

\* --------------------------------------------------------------- vocabulary
\* the keys the properties quantify over: every key of a call or a search,
\* and every prefix of one
ProbeKeys == UNION { { Upto(k, i) : i \in 0..Len(k) } : k \in SearchKeys }

IsByteString(k) == \A i \in 1..Len(k) : k[i] \in 0..255

ProperPrefix(a, b) == Len(a) < Len(b) /\ StartsWith(b, a)

CalledKeys == { calls[i].key : i \in 1..Len(calls) }

\* the value of the most recent insert(k, _) call, None if there is none
RECURSIVE LastValue(_, _)
LastValue(cs, k) ==
    IF cs = <<>> THEN None
    ELSE IF cs[Len(cs)].key = k THEN cs[Len(cs)].value
         ELSE LastValue(SubSeq(cs, 1, Len(cs) - 1), k)

\* the value of the most recent insert(k, _) call that completed
RECURSIVE LastCompleted(_, _)
LastCompleted(cs, k) ==
    IF cs = <<>> THEN None
    ELSE IF cs[Len(cs)].key = k /\ cs[Len(cs)].raised = NoError
         THEN cs[Len(cs)].value
         ELSE LastCompleted(SubSeq(cs, 1, Len(cs) - 1), k)

AllCompleted == \A i \in 1..Len(calls) : calls[i].raised = NoError

NonEmptyKeys == \A i \in 1..Len(calls) : calls[i].key # EmptyKey

\* a fresh MerklePatriciaTrie17 after the insert calls of cs, in order
RECURSIVE Build(_)
Build(cs) ==
    IF cs = <<>> THEN NewTrie17
    ELSE insert(Build(SubSeq(cs, 1, Len(cs) - 1)),
                cs[Len(cs)].key, cs[Len(cs)].value).trie

\* the orders in which the calls made so far can be made
Reorderings ==
    { [i \in 1..Len(calls) |-> calls[p[i]]] : p \in Permutations(1..Len(calls)) }

ScenarioA ==
    << <<K_cat, 100>>, <<K_car, 200>>, <<K_card, 300>>, <<K_dog, 400>> >>

\* the calls made so far are the first calls of Scenario A
InScenarioA ==
    /\ Len(calls) <= Len(ScenarioA)
    /\ \A i \in 1..Len(calls) :
          calls[i].key = ScenarioA[i][1] /\ calls[i].value = ScenarioA[i][2]

\* ------------------------------------------------------------------- claims
\* C1: read-after-write in MerklePatriciaTrie17: after any sequence of insert
\* calls with non-empty keys, search(k) returns for every inserted key the
\* value of the most recent insert(k, _).
C1_ReadAfterWrite ==
    (impl = "eth_pat" /\ NonEmptyKeys) =>
        \A k \in CalledKeys : search(trie, k).value = LastValue(calls, k)

\* C2: Scenario A: the inserts of cat, car, card, dog in that order all
\* complete, and after the four of them cat, car, card, dog are found with
\* their values and ca and carded are not found.
C2_ScenarioA ==
    (impl = "eth_pat" /\ InScenarioA) =>
        /\ AllCompleted
        /\ Len(calls) = Len(ScenarioA) =>
              /\ search(trie, K_cat).value = 100
              /\ search(trie, K_car).value = 200
              /\ search(trie, K_card).value = 300
              /\ search(trie, K_dog).value = 400
              /\ search(trie, K_ca).value = None
              /\ search(trie, K_carded).value = None

\* C3: order independence of the root digest: every order of the insert
\* calls made so far that leaves the same key -> value set completes and
\* ends with the root hash the trie has now.
C3_OrderIndependent ==
    (impl = "eth_pat" /\ NonEmptyKeys) =>
        /\ AllCompleted
        /\ \A s \in Reorderings :
              (\A k \in CalledKeys : LastValue(s, k) = LastValue(calls, k))
                  => Build(s).hash = trie.hash

\* C4: insert is total: an insert call with a non-empty key never raises,
\* already on the tries that only non-empty keys were inserted into.
C4_InsertTotal ==
    (impl = "eth_pat" /\ NonEmptyKeys /\ result.op = "insert")
        => result.raised = NoError

\* C5: no false positives: after any sequence of inserts of byte-string
\* keys, search returns None for every key that was never inserted, a proper
\* prefix or a proper extension of a stored key included.
C5_NoFalsePositive ==
    (impl = "eth_pat" /\ \A k \in CalledKeys : IsByteString(k)) =>
        \A k \in ProbeKeys \ CalledKeys : search(trie, k).value = None

\* C5 witness: with cat and card stored, the searches of the prefix ca and of
\* the extension carded have both returned None.
C5_Witness ==
    /\ impl = "eth_pat"
    /\ {K_cat, K_card} \subseteq CalledKeys /\ AllCompleted
    /\ result.op = "search" /\ result.key \in {K_ca, K_carded}
    /\ result.value = None

\* C6: prefix non-aliasing: two non-empty keys, one a proper prefix of the
\* other, inserted into the empty trie in either order with distinct values,
\* are both found with their own value.
C6_PrefixNonAliasing ==
    (/\ impl = "eth_pat"
     /\ Len(calls) = 2
     /\ NonEmptyKeys
     /\ calls[1].value # calls[2].value
     /\ \/ ProperPrefix(calls[1].key, calls[2].key)
        \/ ProperPrefix(calls[2].key, calls[1].key))
    => /\ search(trie, calls[1].key).value = calls[1].value
       /\ search(trie, calls[2].key).value = calls[2].value

\* C6 witness: car was inserted before or after card, and the search of the
\* prefix car has returned its value.
C6_Witness ==
    /\ impl = "eth_pat"
    /\ Len(calls) = 2
    /\ {calls[1].key, calls[2].key} = {K_car, K_card}
    /\ result.op = "search" /\ result.key = K_car /\ result.value # None

\* C7: an insert with a zero-length key is rejected with an error and leaves
\* the trie unchanged, in both classes.
C7_EmptyKeyRejected ==
    [][(Len(calls') = Len(calls) + 1 /\ calls'[Len(calls')].key = EmptyKey)
          => /\ result'.raised = "ValueError"
             /\ trie'.root = trie.root /\ trie'.hash = trie.hash
             /\ tree'.root = tree.root /\ tree'.hash = tree.hash]_vars

C9_EmptyTrie ==
    (impl = "eth_pat" /\ calls = <<>>) =>
        /\ trie.hash = NoHash
        /\ \A k \in ProbeKeys : search(trie, k).value = None
        /\ result.op = "search" => result.value = None

\* C9 witness: a search was made on the fresh trie.
C9_Witness ==
    impl = "eth_pat" /\ calls = <<>> /\ result.op = "search" /\ result.key = K_cat

\* C10: the first insert of a non-empty key k replaces the Blank root with a
\* Leaf whose path is the nibbles of k and whose value is the inserted one,
\* and the root digest is then not None.
C10_FirstInsert ==
    (impl = "eth_pat" /\ Len(calls) = 1 /\ calls[1].key # EmptyKey) =>
        /\ trie.root.node_type = "leaf"
        /\ trie.root.path = string_to_nibbles(calls[1].key)
        /\ trie.root.value = calls[1].value
        /\ trie.root.branches = MPT17Node("leaf").branches
        /\ trie.hash # NoHash

\* C10 witness: cat is the only key inserted and the insert has returned.
C10_Witness ==
    /\ impl = "eth_pat" /\ Len(calls) = 1 /\ calls[1].key = K_cat
    /\ result.op = "insert" /\ result.raised = NoError
    /\ trie.root.path = <<"6", "3", "6", "1", "7", "4">>

\* ------------------------------------------- main.py / main3.py Merkle trees
\* the integers an out-of-band write stores
TamperValues == {0, 1100}

\* tree.insert(key, value) of main3.py
InsertM3(key, value) ==
    /\ impl = "main3"
    /\ Len(calls) < MaxInserts
    /\ LET r == m3_insert(tree, key, value)
       IN  /\ tree' = r.tree
           /\ result' = [op |-> "insert", key |-> key, value |-> None,
                         raised |-> r.raised]
           /\ calls' = Append(calls, [key |-> key, value |-> value,
                                      raised |-> r.raised])
    /\ tampered' = (IF tampered = "never" THEN "never" ELSE "absorbed")
    /\ UNCHANGED <<impl, trie, codec, comparison, frame>>

\* a bool returned to the caller; bool is a subclass of int, True == 1 and
\* False == 0
PyBool(b) == IF b THEN 1 ELSE 0

\* tree.verify_integrity() of main.py
VerifyMPT ==
    /\ impl = "main"
    /\ LET r == mpt_verify_integrity(tree)
       IN  /\ tree' = r.tree
           /\ result' = [op |-> "verify_integrity", key |-> <<>>,
                         value |-> PyBool(r.value), raised |-> NoError]
    /\ tampered' = (CASE tampered = "pending" -> "checked"
                      [] tampered = "checked" -> "absorbed"
                      [] OTHER -> tampered)
    /\ UNCHANGED <<impl, trie, calls, codec, comparison, frame>>

\* tree.verify_integrity() of main3.py
VerifyM3 ==
    /\ impl = "main3"
    /\ LET r == m3_verify_integrity(tree)
       IN  /\ tree' = r.tree
           /\ result' = [op |-> "verify_integrity", key |-> <<>>,
                         value |-> PyBool(r.value), raised |-> NoError]
    /\ tampered' = (CASE tampered = "pending" -> "checked"
                      [] tampered = "checked" -> "absorbed"
                      [] OTHER -> tampered)
    /\ UNCHANGED <<impl, trie, calls, codec, comparison, frame>>

\* the corruption of interactive_demo: after an insert, the integer in one
\* node is overwritten with another integer; no hash is touched
Tamper(addr, w) ==
    /\ impl \in {"main", "main3"}
    /\ tampered = "never"
    /\ result.op \in {"insert", "verify_integrity"}
    /\ \E i \in 1..Len(calls) : calls[i].raised = NoError
    /\ NodeAt(tree.root, addr).value \notin {None, w}
    /\ tree' = [tree EXCEPT !.root = SetValueAt(@, addr, w)]
    /\ tampered' = "pending"
    /\ result' = [op |-> "tamper", key |-> addr, value |-> w, raised |-> NoError]
    /\ UNCHANGED <<impl, trie, calls, codec, comparison, frame>>

NextMerkle ==
    \/ \E in \in InsertInputs : InsertMPT(in[1], in[2])
    \/ \E in \in InsertInputs : InsertM3(in[1], in[2])
    \/ VerifyMPT
    \/ VerifyM3
    \/ \E addr \in NodeAddrs(tree.root), w \in TamperValues : Tamper(addr, w)

SpecMerkle ==
    (Constructed("main") \/ Constructed("main3")) /\ [][NextMerkle]_vars

\* C11: codec round trip: for every Python string k, characters above 255
\* included, nibbles_to_string(string_to_nibbles(k)) returns k.
C11_RoundTrip ==
    (codec.op = "nibbles_to_string" /\ codec.round_trip) =>
        codec.raised = NoError /\ codec.out = codec.s

\* C12: string_to_nibbles(k) has exactly 2 * len(k) nibbles, so that no
\* other key has the same nibble path.
C12_EncodingLength ==
    codec.op = "string_to_nibbles" =>
        /\ Len(codec.nibbles) = 2 * Len(codec.s)
        /\ \A k \in CodecStrings \ {codec.s} : string_to_nibbles(k) # codec.nibbles

\* C13: nibbles_to_string fails with ValueError and returns nothing on every
\* nibble string of odd length, and does not fail on one of even length.
C13_DecodeFailure ==
    codec.op = "nibbles_to_string" =>
        /\ Len(codec.nibbles) % 2 = 1 => codec.raised = "ValueError" /\ codec.out = NoString
        /\ Len(codec.nibbles) % 2 = 0 => codec.raised = NoError /\ codec.out # NoString

\* C13 witness: a nibble string of three nibbles was refused.
C13_Witness ==
    /\ codec.op = "nibbles_to_string" /\ Len(codec.nibbles) = 3
    /\ codec.raised = "ValueError"

\* C14: in the MerklePatriciaTree of main.py and of main3.py, after at least
\* one completed insert and no out-of-band write, verify_integrity() returns
\* true.
C14_IntegrityAfterInsert ==
    (/\ impl \in {"main", "main3"}
     /\ result.op = "verify_integrity"
     /\ tampered = "never"
     /\ \E i \in 1..Len(calls) : calls[i].raised = NoError)
    => result.value = PyBool(TRUE)

\* C14 witness: verify_integrity() has returned true on a main3.py tree that
\* holds three keys.
C14_Witness ==
    /\ impl = "main3" /\ result.op = "verify_integrity" /\ tampered = "never"
    /\ Len(calls) = 3 /\ Cardinality(CalledKeys) = 3
    /\ result.value = PyBool(TRUE)

\* C15: after an out-of-band write of a different integer into one node, made
\* after the last insert, the next verify_integrity() returns false.
C15_TamperDetected ==
    (/\ impl \in {"main", "main3"}
     /\ result.op = "verify_integrity"
     /\ tampered = "checked")
    => result.value = PyBool(FALSE)

\* C15 witness: a write into a node below the root of a main.py tree was
\* followed by a verify_integrity() that returned false.
C15_Witness ==
    /\ impl = "main" /\ result.op = "verify_integrity" /\ tampered = "checked"
    /\ Len(calls) >= 2
    /\ result.value = PyBool(FALSE)

\* ----------------------------------------------------- eth_pat.py root digest
K_a == <<97>>

K_a1 == <<97, 49>>

K_b == <<98>>

\* the (key, value) pairs of the tries whose digests are compared
HashInputs ==
    { <<K_a, 315>>, <<K_a1, 5>>, <<K_b, 7>>, <<K_a, 0>>, <<K_a, 7>> }

NextHash == \E in \in HashInputs : Insert17(in[1], in[2])

SpecHash == Constructed("eth_pat") /\ [][NextHash]_vars

\* the insert sequences a second trie is built from
HashHistories ==
    { [i \in 1..Len(q) |-> [key |-> q[i][1], value |-> q[i][2], raised |-> NoError]]
      : q \in SeqsUpTo(HashInputs, MaxInserts) }

\* every insert of cs, made in order on a fresh trie, returns
Completes(cs) ==
    \A i \in 1..Len(cs) :
        insert(Build(SubSeq(cs, 1, i - 1)), cs[i].key, cs[i].value).raised = NoError

\* the key -> value set a trie holds after the inserts of cs
Contents(cs) ==
    { <<cs[i].key, LastValue(cs, cs[i].key)>> : i \in 1..Len(cs) }

\* C16: with SHA-256 taken as injective, two tries of eth_pat.py that hold
\* different key -> value sets have different root digests (an overwrite with
\* a different value gives such a pair of tries).
C16_DigestSeparates ==
    AllCompleted =>
        \A cs \in HashHistories :
            (Completes(cs) /\ Contents(cs) # Contents(calls))
            => Build(cs).hash # trie.hash

\* ------------------------------------------ main3.py comparison of variants
\* basic.insert(key, value); patricia.insert(key, value); merkle.insert(key, value)
CompareInsert(key, value) ==
    /\ impl = "compare"
    /\ Len(calls) < MaxInserts
    /\ comparison' = [basic |-> basic_insert(comparison.basic, key, value),
                      patricia |-> patricia_insert(comparison.patricia, key, value),
                      found |-> <<>>]
    /\ tree' = m3_insert(tree, key, value).tree
    /\ result' = [op |-> "insert", key |-> key, value |-> None, raised |-> NoError]
    /\ calls' = Append(calls, [key |-> key, value |-> value, raised |-> NoError])
    /\ UNCHANGED <<impl, trie, codec, tampered, frame>>

\* basic.search(key), patricia.search(key), merkle.search(key)
CompareSearch(key) ==
    /\ impl = "compare"
    /\ comparison' = [comparison EXCEPT !.found =
                         << basic_search(comparison.basic, key),
                            patricia_search(comparison.patricia, key),
                            m3_search(tree, key).value >>]
    /\ result' = [op |-> "search", key |-> key,
                  value |-> m3_search(tree, key).value, raised |-> NoError]
    /\ UNCHANGED <<impl, trie, tree, calls, codec, tampered, frame>>

NextCompare ==
    \/ \E in \in InsertInputs : CompareInsert(in[1], in[2])
    \/ \E key \in ProbeKeys : CompareSearch(key)

SpecCompare == Constructed("compare") /\ [][NextCompare]_vars

\* C17: after the same inserts into the TrueBasicRadixTree, the PatriciaTree
\* and the MerklePatriciaTree of main3.py, the three search(k) results are
\* equal, and they are the value of the most recent insert of k, None if k
\* was never inserted.
C17_VariantsAgree ==
    (impl = "compare" /\ result.op = "search")
    => /\ comparison.found[1] = comparison.found[2]
       /\ comparison.found[2] = comparison.found[3]
       /\ comparison.found[3] = LastValue(calls, result.key)

\* C17 witness: car was inserted twice among three inserts, and the three
\* trees return its second value.
C17_Witness ==
    /\ impl = "compare" /\ result.op = "search" /\ result.key = K_car
    /\ Len(calls) = 3 /\ calls[1].key = K_car /\ calls[3].key = K_car
    /\ calls[1].value # calls[3].value
    /\ comparison.found = <<calls[3].value, calls[3].value, calls[3].value>>

\* ------------------------------------------------------ ver_17.py state machine
\* trie.insert(key, value) of ver_17.py
InsertV17(key, value) ==
    /\ impl = "ver_17"
    /\ Len(calls) < MaxInserts
    /\ LET r == v17_insert(trie, key, value)
       IN  /\ trie' = r.trie
           /\ result' = [op |-> "insert", key |-> key, value |-> None,
                         raised |-> r.raised]
           /\ calls' = Append(calls, [key |-> key, value |-> value,
                                      raised |-> r.raised])
    /\ UNCHANGED <<impl, tree, codec, tampered, comparison, frame>>

\* trie.search(key) of ver_17.py
SearchV17(key) ==
    /\ impl = "ver_17"
    /\ LET r == v17_search(trie, key)
       IN  result' = [op |-> "search", key |-> key, value |-> r.value,
                      raised |-> r.raised]
    /\ UNCHANGED <<impl, trie, tree, calls, codec, tampered, comparison, frame>>

NextV17 ==
    \/ \E in \in InsertInputs : InsertV17(in[1], in[2])
    \/ \E key \in SearchKeys : SearchV17(key)

\* trie = MerklePatriciaTrie17() of ver_17.py
ConstructedV17 ==
    /\ impl = "ver_17"
    /\ trie = v17_NewTrie17
    /\ tree = NewTree
    /\ calls = <<>>
    /\ result = NoCall
    /\ codec = NoCodecCall
    /\ tampered = "never"
    /\ comparison = NoComparison
    /\ frame = NoFrame

SpecV17 == ConstructedV17 /\ [][NextV17]_vars

\* the keys of the calls made so far are distinct
DistinctKeys == Cardinality(CalledKeys) = Len(calls)

\* C18: the caller of the recursive insert stores the node it returns, the
\* trie's root included; so in ver_17.py, after inserts of distinct keys
\* that all completed, search finds every inserted key with its value.
C18_InsertedKeysFound ==
    (/\ impl = "ver_17" /\ result.op = "search"
     /\ AllCompleted /\ DistinctKeys /\ NonEmptyKeys
     /\ result.key \in CalledKeys)
    => result.value = LastValue(calls, result.key)

\* ------------------------------------------------- where an insert arrives
\* the nodes _insert_recursive visits from node with the nibbles remaining at
\* each, down to the node whose case ends the descent
RECURSIVE Descent(_, _)
Descent(node, remaining_nibbles) ==
    <<[node |-> node, remaining |-> remaining_nibbles]>> \o
    (CASE node.node_type = "extension"
            /\ StartsWith(remaining_nibbles, node.path)
            /\ Branch(node, 0) # NoNode ->
              Descent(Branch(node, 0), From(remaining_nibbles, Len(node.path)))
       [] node.node_type = "branch"
            /\ remaining_nibbles # <<>>
            /\ Branch(node, HexVal(remaining_nibbles[1])) # NoNode ->
              Descent(Branch(node, HexVal(remaining_nibbles[1])), Tail(remaining_nibbles))
       [] OTHER -> <<>>)

\* the node at which the insert of key ends, with the nibbles remaining there
Arrival(t, key) ==
    LET d == Descent(t.root, string_to_nibbles(key)) IN d[Len(d)]

\* node with the subtree that the descent of remaining_nibbles ends at
\* replaced by sub
RECURSIVE WithSubtree(_, _, _)
WithSubtree(node, remaining_nibbles, sub) ==
    CASE node.node_type = "extension"
            /\ StartsWith(remaining_nibbles, node.path)
            /\ Branch(node, 0) # NoNode ->
              SetBranch(node, 0, WithSubtree(Branch(node, 0),
                                     From(remaining_nibbles, Len(node.path)), sub))
       [] node.node_type = "branch"
            /\ remaining_nibbles # <<>>
            /\ Branch(node, HexVal(remaining_nibbles[1])) # NoNode ->
              SetBranch(node, HexVal(remaining_nibbles[1]),
                        WithSubtree(Branch(node, HexVal(remaining_nibbles[1])),
                                    Tail(remaining_nibbles), sub))
       [] OTHER -> sub

\* the insert call that a step makes
StepCall == calls'[Len(calls')]

IsInsert17Step == impl = "eth_pat" /\ Len(calls') = Len(calls) + 1

\* C19: when the insert arrives at a Leaf whose path is exactly the remaining
\* nibbles, the call returns, that Leaf's value is the only change in the
\* trie (no node created or removed, the node counts unchanged), and the
\* search result of every other key is as before.
C19_LeafExactMatch ==
    [][ (/\ IsInsert17Step
         /\ Arrival(trie, StepCall.key).node.node_type = "leaf"
         /\ Arrival(trie, StepCall.key).node.path
                = Arrival(trie, StepCall.key).remaining)
        => /\ StepCall.raised = NoError
           /\ trie'.root = WithSubtree(trie.root, string_to_nibbles(StepCall.key),
                               [Arrival(trie, StepCall.key).node
                                   EXCEPT !.value = StepCall.value])
           /\ trie'.stats = trie.stats
           /\ \A k \in ProbeKeys \ {StepCall.key} :
                  search(trie', k) = search(trie, k) ]_vars

\* C19 witness: car is stored in a leaf under an extension and a branch, and
\* a second insert of car has replaced its value.
C19_Witness ==
    /\ impl = "eth_pat" /\ Len(calls) = 3 /\ AllCompleted /\ result.op = "insert"
    /\ calls[1].key = K_car /\ calls[2].key = K_dog /\ calls[3].key = K_car
    /\ calls[1].value # calls[3].value
    /\ trie.root.node_type = "extension"
    /\ Arrival(trie, K_car).node.node_type = "leaf"
    /\ Arrival(trie, K_car).node.value = calls[3].value

\* the subtree that takes the place of a Leaf when a different remaining path
\* arrives at it: a Branch holding the old and the new value, each in the slot
\* of the first nibble of its suffix or at the terminator when the suffix is
\* empty, under an Extension of the common prefix when there is one
SplitOfLeaf(node, remaining_nibbles, value) ==
    LET c == common_prefix_length(node.path, remaining_nibbles)
        oldSuffix == From(node.path, c)
        newSuffix == From(remaining_nibbles, c)
        b0 == MPT17Node("branch")
        b1 == IF oldSuffix # <<>>
              THEN SetBranch(b0, HexVal(oldSuffix[1]), LeafNode(Tail(oldSuffix), node.value))
              ELSE [b0 EXCEPT !.value = node.value]
        b2 == IF newSuffix # <<>>
              THEN SetBranch(b1, HexVal(newSuffix[1]), LeafNode(Tail(newSuffix), value))
              ELSE [b1 EXCEPT !.value = value]
    IN  IF c > 0
        THEN SetBranch([MPT17Node("extension") EXCEPT !.path = Upto(node.path, c)], 0, b2)
        ELSE b2

\* C20: when the insert arrives at a Leaf whose path is not the remaining
\* nibbles, with a common prefix of any length c >= 0, the call returns and
\* the Leaf is replaced by a Branch that holds the old value under the first
\* nibble of path[c:] (at the terminator if path[c:] is empty) and the new
\* value under the first nibble of remaining[c:] (at the terminator if it is
\* empty), wrapped in an Extension of path[:c] iff c > 0.
C20_LeafSplitResult ==
    [][ (/\ IsInsert17Step
         /\ NonEmptyKeys'
         /\ Arrival(trie, StepCall.key).node.node_type = "leaf"
         /\ Arrival(trie, StepCall.key).node.path
                # Arrival(trie, StepCall.key).remaining)
        => /\ StepCall.raised = NoError
           /\ trie'.root = WithSubtree(trie.root, string_to_nibbles(StepCall.key),
                               SplitOfLeaf(Arrival(trie, StepCall.key).node,
                                           Arrival(trie, StepCall.key).remaining,
                                           StepCall.value)) ]_vars

\* -------------------------------------------------- eth_pat.py extension split
K_c == <<99>>

\* the (key, value) pairs of the runs that split extensions: cat and car make
\* an extension of five nibbles, dog splits it after one, q before any, ca
\* ends inside it, and c ends at the extension that dog's split leaves
SplitInputs ==
    { <<K_cat, 100>>, <<K_car, 200>>, <<K_dog, 400>>, <<K_c, 500>>, <<K_q, 100>>,
      <<K_ca, 600>>, <<K_ca, 700>> }

NextSplit == \E in \in SplitInputs : Insert17Within(MaxSplitInserts, in[1], in[2])

SpecSplit == Constructed("eth_pat") /\ [][NextSplit]_vars

\* the subtree that takes the place of an Extension when the remaining path
\* leaves its path after c nibbles: a Branch with the old child under the
\* first nibble of path[c:], below an Extension of the rest of path[c:] when
\* there is a rest, and the new value under the first nibble of
\* remaining[c:] or at the terminator, the Branch under an Extension of
\* path[:c] when c > 0
SplitOfExtension(node, remaining_nibbles, value) ==
    LET c == common_prefix_length(node.path, remaining_nibbles)
        oldSuffix == From(node.path, c)
        newSuffix == From(remaining_nibbles, c)
        b0 == MPT17Node("branch")
        oldEntry == IF Len(oldSuffix) > 1
                    THEN SetBranch([MPT17Node("extension") EXCEPT !.path = Tail(oldSuffix)],
                                   0, Branch(node, 0))
                    ELSE Branch(node, 0)
        b1 == SetBranch(b0, HexVal(oldSuffix[1]), oldEntry)
        b2 == IF newSuffix # <<>>
              THEN SetBranch(b1, HexVal(newSuffix[1]), LeafNode(Tail(newSuffix), value))
              ELSE [b1 EXCEPT !.value = value]
    IN  IF c > 0
        THEN SetBranch([MPT17Node("extension") EXCEPT !.path = Upto(node.path, c)], 0, b2)
        ELSE b2

\* the insert of a step arrives at an Extension whose path the remaining
\* nibbles leave before its end
ArrivesInsideExtension ==
    /\ IsInsert17Step
    /\ NonEmptyKeys'
    /\ Arrival(trie, StepCall.key).node.node_type = "extension"
    /\ ~StartsWith(Arrival(trie, StepCall.key).remaining,
                   Arrival(trie, StepCall.key).node.path)

\* C21: when the remaining path leaves an Extension's path after c < len(path)
\* nibbles (c = 0 included), the call returns, the Extension is replaced by
\* the Branch described above (old child directly or under a shortened
\* Extension, new value in a Leaf or at the terminator, wrapped in an
\* Extension of path[:c] iff c > 0), and every key stored before is still
\* found with its value.
C21_ExtensionSplitResult ==
    [][ ArrivesInsideExtension
        => /\ StepCall.raised = NoError
           /\ trie'.root = WithSubtree(trie.root, string_to_nibbles(StepCall.key),
                               SplitOfExtension(Arrival(trie, StepCall.key).node,
                                                Arrival(trie, StepCall.key).remaining,
                                                StepCall.value))
           /\ \A k \in CalledKeys \ {StepCall.key} :
                  search(trie', k) = search(trie, k) ]_vars

\* ------------------------------------- ver_17.py _insert_recursive on a node
\* node = self._insert_recursive(node, string_to_nibbles(key), value, 0): the
\* method applied to the node held in trie.root, which then holds its result
InsertRecursiveV17(key, value) ==
    /\ impl = "ver_17_node"
    /\ Len(calls) < MaxInserts
    /\ LET r == v17_insert_recursive(trie.root, string_to_nibbles(key), value,
                                     trie.stats)
       IN  /\ trie' = [trie EXCEPT !.root = r.node, !.stats = r.stats]
           /\ result' = [op |-> "insert", key |-> key, value |-> None,
                         raised |-> r.raised]
           /\ calls' = Append(calls, [key |-> key, value |-> value,
                                      raised |-> r.raised])
    /\ UNCHANGED <<impl, tree, codec, tampered, comparison, frame>>

\* self._search_recursive(node, string_to_nibbles(key)) on the node held
SearchRecursiveV17(key) ==
    /\ impl = "ver_17_node"
    /\ result' = [op |-> "search", key |-> key,
                  value |-> _search_recursive(trie.root, string_to_nibbles(key)),
                  raised |-> NoError]
    /\ UNCHANGED <<impl, trie, tree, calls, codec, tampered, comparison, frame>>

NextNodeV17 ==
    \/ \E in \in InsertInputs : InsertRecursiveV17(in[1], in[2])
    \/ \E key \in SearchKeys : SearchRecursiveV17(key)

\* the node is the root Leaf that insert makes of its first key (lines 108-112)
ConstructedNodeV17 ==
    \E in \in InsertInputs :
        /\ impl = "ver_17_node"
        /\ trie = [root |-> LeafNode(string_to_nibbles(in[1]), in[2]),
                   hash |-> NoHash,
                   stats |-> Bump(v17_InitialStats, "leaf_nodes", 1)]
        /\ tree = NewTree
        /\ calls = <<[key |-> in[1], value |-> in[2], raised |-> NoError]>>
        /\ result = NoCall
        /\ codec = NoCodecCall
        /\ tampered = "never"
        /\ comparison = NoComparison
        /\ frame = NoFrame

SpecNodeV17 == ConstructedNodeV17 /\ [][NextNodeV17]_vars

\* C22: when _insert_recursive of ver_17.py arrives at an Extension whose
\* path the remaining nibbles leave before its end, it returns the node it
\* was given: nothing is created or counted, the key is stored nowhere, and
\* a search for it finds nothing.
C22_IncompleteExtensionSplit ==
    [][ (/\ impl = "ver_17_node"
         /\ Len(calls') = Len(calls) + 1
         /\ Arrival(trie, StepCall.key).node.node_type = "extension"
         /\ ~StartsWith(Arrival(trie, StepCall.key).remaining,
                        Arrival(trie, StepCall.key).node.path))
        => /\ StepCall.raised = NoError
           /\ trie'.root = trie.root
           /\ trie'.stats = trie.stats
           /\ _search_recursive(trie'.root, string_to_nibbles(StepCall.key)) = None
      ]_vars

\* C22 witness: cat and car made an Extension of five nibbles, the insert of
\* dog left it after one nibble, and dog is not found.
C22_Witness ==
    /\ impl = "ver_17_node" /\ Len(calls) = 3 /\ AllCompleted
    /\ calls[1].key = K_cat /\ calls[2].key = K_car /\ calls[3].key = K_dog
    /\ result.op = "search" /\ result.key = K_dog /\ result.value = None
    /\ trie.root.node_type = "extension" /\ Len(trie.root.path) = 5
    /\ trie.stats.branch_nodes = 1

\* the nodes the insert of a step visits, before and after the call
StepDescent == Descent(trie.root, string_to_nibbles(StepCall.key))

StepDescentAfter == Descent(trie'.root, string_to_nibbles(StepCall.key))

\* C23: a Branch that an insert visits stays a Branch in its place with every
\* slot other than slot[remaining[0]] unchanged and, when nibbles remain, its
\* terminator unchanged. When the call returns: with nothing remaining the
\* terminator is the new value and no slot has changed; otherwise an empty
\* slot[remaining[0]] holds Leaf{remaining[1:], value} and a populated one
\* holds what the recursion into it returned.
C23_BranchInsert ==
    [][ IsInsert17Step =>
        \A i \in 1..Len(StepDescent) :
            StepDescent[i].node.node_type = "branch" =>
            LET old == StepDescent[i].node
                rem == StepDescent[i].remaining
                new == StepDescentAfter[i].node
                n == IF rem = <<>> THEN 16 ELSE HexVal(rem[1])
            IN  /\ Len(StepDescentAfter) >= i
                /\ new.node_type = "branch"
                /\ \A j \in (0..16) \ {n} : Branch(new, j) = Branch(old, j)
                /\ rem # <<>> => new.value = old.value
                /\ (StepCall.raised = NoError /\ rem = <<>>)
                      => new = [old EXCEPT !.value = StepCall.value]
                /\ (StepCall.raised = NoError /\ rem # <<>> /\ Branch(old, n) = NoNode)
                      => Branch(new, n) = LeafNode(Tail(rem), StepCall.value)
                /\ (StepCall.raised = NoError /\ rem # <<>> /\ Branch(old, n) # NoNode)
                      => Branch(new, n)
                           = _insert_recursive(Branch(old, n), Tail(rem),
                                               StepCall.value, trie.stats).node
      ]_vars

\* C23 witness: ca sits at the terminator of the Branch that cat's insert
\* made; a second insert of ca has replaced it there, and a later insert of
\* car went through slot 7 of the same Branch.
C23_Witness ==
    /\ impl = "eth_pat" /\ Len(calls) = 4 /\ AllCompleted
    /\ calls[1].key = K_ca /\ calls[2].key = K_cat
    /\ calls[3].key = K_ca /\ calls[3].value # calls[1].value
    /\ calls[4].key = K_car
    /\ Arrival(trie, K_ca).node.node_type = "branch"
    /\ Arrival(trie, K_ca).node.value = calls[3].value
    /\ search(trie, K_car).value = calls[4].value

\* ------------------------------------------------------- shape of the trie
\* the nodes reachable from node, node included
RECURSIVE Nodes17(_)
Nodes17(node) ==
    {node} \cup UNION { Nodes17(node.branches[i]) :
                          i \in { j \in DOMAIN node.branches : node.branches[j] # NoNode } }

\* the slots of a node that hold a child (0-based)
Populated(node) == { j \in 0..16 : Branch(node, j) # NoNode }

\* C24: in every trie that inserts build, every Extension has a non-empty
\* path and exactly one child, held in branches[0], and that child is not an
\* Extension.
C24_ExtensionWellFormed ==
    impl = "eth_pat" =>
        \A node \in Nodes17(trie.root) :
            node.node_type = "extension" =>
                /\ node.path # <<>>
                /\ Populated(node) = {0}
                /\ Branch(node, 0).node_type # "extension"

\* C24 witness: the split of an Extension has left a shortened Extension
\* below a Branch, under the Extension of the common prefix.
C24_Witness ==
    /\ impl = "eth_pat" /\ AllCompleted
    /\ trie.root.node_type = "extension"
    /\ \E node \in Nodes17(trie.root) \ {trie.root} :
           node.node_type = "extension" /\ Len(node.path) = 3

\* the populated entries of a Branch: its slots and its terminator
Entries(node) ==
    Cardinality(Populated(node)) + (IF node.value # None THEN 1 ELSE 0)

\* the insert of a step arrives at a Leaf that it splits
ArrivesAtOtherLeaf ==
    /\ IsInsert17Step
    /\ Arrival(trie, StepCall.key).node.node_type = "leaf"
    /\ Arrival(trie, StepCall.key).node.path # Arrival(trie, StepCall.key).remaining

\* the Branch that the split of a step has made
SplitBranch ==
    LET n == StepDescentAfter[Len(StepDescent)].node
    IN  IF n.node_type = "extension" THEN Branch(n, 0) ELSE n

\* C25: every Branch of a trie built by inserts of values other than None
\* has a populated slot or a terminator; and in a split the suffixes of the
\* old path and of the remaining path after the common prefix begin with
\* different nibbles, so the old and the new entry are both in the Branch.
C25_BranchWellFormed ==
    [][ IsInsert17Step =>
        /\ \A node \in Nodes17(trie'.root) :
               node.node_type = "branch" => Entries(node) >= 1
        /\ (ArrivesAtOtherLeaf \/ ArrivesInsideExtension) =>
               LET node == Arrival(trie, StepCall.key).node
                   rem == Arrival(trie, StepCall.key).remaining
                   c == common_prefix_length(node.path, rem)
               IN  /\ (c < Len(node.path) /\ c < Len(rem)) => node.path[c + 1] # rem[c + 1]
                   /\ StepCall.raised = NoError
                        => SplitBranch.node_type = "branch" /\ Entries(SplitBranch) = 2
      ]_vars

\* C25 witness: the split of the Leaf of ca by cat made a Branch with ca at
\* its terminator and cat in one slot.
C25_Witness ==
    /\ impl = "eth_pat" /\ Len(calls) = 2 /\ AllCompleted
    /\ calls[1].key = K_ca /\ calls[2].key = K_cat
    /\ trie.root.node_type = "extension"
    /\ Branch(trie.root, 0).value = calls[1].value
    /\ Populated(Branch(trie.root, 0)) = {7}

\* the routes from node to its terminals: for each Leaf and each Branch
\* terminator below node, the nibbles consumed on the way (prefix, then
\* Extension paths, one nibble per Branch slot taken, the Leaf's path) and
\* the value found there
RECURSIVE Routes(_, _)
Routes(node, prefix) ==
    CASE node.node_type = "leaf" ->
           { [path |-> prefix \o node.path, value |-> node.value] }
      [] node.node_type = "extension" ->
           UNION { Routes(Branch(node, j), prefix \o node.path) : j \in Populated(node) }
      [] node.node_type = "branch" ->
           (IF node.value # None THEN { [path |-> prefix, value |-> node.value] } ELSE {})
           \cup UNION { Routes(Branch(node, j), prefix \o <<Hex[j + 1]>>)
                        : j \in Populated(node) }
      [] OTHER -> {}

\* the keys of the inserts that completed
StoredKeys == { calls[i].key : i \in { j \in 1..Len(calls) : calls[j].raised = NoError } }

\* C26: the routes of the trie are those of the stored keys: for every key
\* whose insert completed, the nibbles consumed from the root to its terminal
\* are, in order, string_to_nibbles(key) (so their number is its length),
\* the value there is the key's latest, and there is no other terminal.
C26_PathLength ==
    impl = "eth_pat" =>
        Routes(trie.root, <<>>)
          = { [path |-> string_to_nibbles(k), value |-> LastCompleted(calls, k)]
              : k \in StoredKeys }

\* C26 witness: four keys are stored, on routes through Extensions and
\* Branches of different depths.
C26_Witness ==
    /\ impl = "eth_pat" /\ Len(calls) = 4 /\ AllCompleted
    /\ Cardinality(Routes(trie.root, <<>>)) = 4
    /\ \E node \in Nodes17(trie.root) \ {trie.root} : node.node_type = "extension"

\* ------------------------------------- eth_pat.py recursion, call by call
\* the call (op, node, remaining) makes a recursive call: _insert_recursive at
\* lines 288-293 and 386-390, _search_recursive at lines 411-414 and 420-423
HasCallee(op, node, remaining) ==
    \/ /\ node.node_type = "extension"
       /\ StartsWith(remaining, node.path)
       /\ op = "insert" => Branch(node, 0) # NoNode
    \/ /\ node.node_type = "branch"
       /\ remaining # <<>>
       /\ op = "insert" => Branch(node, HexVal(remaining[1])) # NoNode

\* a recursive call that passes the remaining nibbles on as they are
Callee_SameRemaining(op, node, remaining) ==
    IF node.node_type = "extension"
    THEN [node |-> Branch(node, 0), remaining |-> remaining]
    ELSE [node |-> Branch(node, HexVal(remaining[1])), remaining |-> Tail(remaining)]

\* the node and the remaining nibbles of the recursive call
Callee(op, node, remaining) ==
    IF node.node_type = "extension"
    THEN [node |-> Branch(node, 0), remaining |-> From(remaining, Len(node.path))]
    ELSE [node |-> Branch(node, HexVal(remaining[1])), remaining |-> Tail(remaining)]

\* insert(key, value) on an empty trie: no recursive call
InsertBlank(key, value) ==
    /\ frame.op = "none"
    /\ trie.root.node_type = "blank"
    /\ Insert17Within(MaxInserts, key, value)

\* insert(key, value) calls _insert_recursive(self.root, nibbles, value); the
\* frame carries what the call is going to leave behind when it ends
BeginInsert(key, value) ==
    /\ impl = "eth_pat"
    /\ frame.op = "none"
    /\ trie.root.node_type # "blank"
    /\ Len(calls) < MaxInserts
    /\ frame' = [op |-> "insert", key |-> key, value |-> value, node |-> trie.root,
                 remaining |-> string_to_nibbles(key), depth |-> 0,
                 outcome |-> insert(trie, key, value)]
    /\ UNCHANGED <<impl, trie, tree, calls, result, codec, tampered, comparison>>

\* search(key) calls _search_recursive(self.root, nibbles)
BeginSearch(key) ==
    /\ impl = "eth_pat"
    /\ frame.op = "none"
    /\ frame' = [op |-> "search", key |-> key, value |-> None, node |-> trie.root,
                 remaining |-> string_to_nibbles(key), depth |-> 0,
                 outcome |-> NoFrame.outcome]
    /\ UNCHANGED <<impl, trie, tree, calls, result, codec, tampered, comparison>>

\* the call in progress makes its recursive call
Descend ==
    /\ frame.op # "none"
    /\ HasCallee(frame.op, frame.node, frame.remaining)
    /\ frame' = [frame EXCEPT
                   !.node = Callee(frame.op, frame.node, frame.remaining).node,
                   !.remaining = Callee(frame.op, frame.node, frame.remaining).remaining,
                   !.depth = @ + 1]
    /\ UNCHANGED <<impl, trie, tree, calls, result, codec, tampered, comparison>>

\* the innermost _insert_recursive returns or raises, and so do its callers
\* and insert
ReturnInsert ==
    /\ frame.op = "insert"
    /\ ~HasCallee(frame.op, frame.node, frame.remaining)
    /\ trie' = frame.outcome.trie
    /\ result' = [op |-> "insert", key |-> frame.key, value |-> None,
                  raised |-> frame.outcome.raised]
    /\ calls' = Append(calls, [key |-> frame.key, value |-> frame.value,
                               raised |-> frame.outcome.raised])
    /\ frame' = NoFrame
    /\ UNCHANGED <<impl, tree, codec, tampered, comparison>>

\* the innermost _search_recursive returns, and so do its callers and search
ReturnSearch ==
    /\ frame.op = "search"
    /\ ~HasCallee(frame.op, frame.node, frame.remaining)
    /\ result' = [op |-> "search", key |-> frame.key,
                  value |-> search(trie, frame.key).value, raised |-> NoError]
    /\ frame' = NoFrame
    /\ UNCHANGED <<impl, trie, tree, calls, codec, tampered, comparison>>

\* the (key, value) pairs and the keys of the calls followed call by call:
\* after cat, car and dog the Leaf of car is below two Extensions and two
\* Branches
DescentInputs == { <<K_cat, 100>>, <<K_car, 200>>, <<K_dog, 400>> }

DescentKeys == { K_car, K_carded, K_c }

NextDescent ==
    \/ \E in \in DescentInputs : InsertBlank(in[1], in[2])
    \/ \E in \in DescentInputs : BeginInsert(in[1], in[2])
    \/ \E key \in DescentKeys : BeginSearch(key)
    \/ Descend
    \/ ReturnInsert
    \/ ReturnSearch

SpecDescent == Constructed("eth_pat") /\ [][NextDescent]_vars

\* a call in progress is run to its end: the interpreter makes the recursive
\* call or the return that the current call has reached
FairDescent ==
    SpecDescent /\ WF_vars(Descend) /\ WF_vars(ReturnInsert) /\ WF_vars(ReturnSearch)

\* C27: every insert and every search ends: each recursive call is made on a
\* child of the node with strictly fewer nibbles remaining, the depth of the
\* recursion is at most the number of nibbles of the key, and a call in
\* progress leads to its return.
C27_Termination ==
    /\ [][ Descend =>
             /\ \E j \in 0..16 : frame'.node = Branch(frame.node, j)
             /\ Len(frame'.remaining) < Len(frame.remaining) ]_vars
    /\ [](frame.depth <= Len(string_to_nibbles(frame.key)))
    /\ (frame.op # "none") ~> (frame.op = "none")

\* C27 witness: a search of carded is five calls deep, below two Extensions
\* and two Branches, at the Leaf of car with six nibbles remaining.
C27_Witness ==
    /\ frame.op = "search" /\ frame.key = K_carded /\ frame.depth = 4
    /\ frame.node.node_type = "leaf" /\ Len(frame.remaining) = 6

\* C28: verify_integrity of main.py and main3.py stores the digest it has
\* recomputed as the root hash; so a verify_integrity() that follows, with
\* nothing in between, one that returned false returns true.
C28_VerifyStoresHash ==
    [][ (impl \in {"main", "main3"} /\ result'.op = "verify_integrity")
        => /\ tree'.hash = mpt_calculate_hash(tree.root)
           /\ tree'.root = tree.root
           /\ (result.op = "verify_integrity" /\ result.value = PyBool(FALSE))
                 => result'.value = PyBool(TRUE) ]_vars

\* C28 witness: on a main.py tree that never had an insert, a second
\* verify_integrity() has returned true.
C28_Witness ==
    /\ impl = "main" /\ calls = <<>>
    /\ result.op = "verify_integrity" /\ result.value = PyBool(TRUE)
    /\ tree.hash # NoHash

\* the keys whose search result is compared across an aborted insert
AbortProbeKeys == SearchKeys \cup { in[1] : in \in SplitInputs }

\* C29: an insert call of eth_pat.py that aborts with an error leaves the
\* nodes reachable from the root, the result of every search and the cached
\* root hash exactly as they were before the call.
C29_NoHalfMutation ==
    [][ (IsInsert17Step /\ StepCall.raised # NoError)
        => /\ trie'.root = trie.root
           /\ trie'.hash = trie.hash
           /\ \A key \in AbortProbeKeys : search(trie', key) = search(trie, key) ]_vars

\* C29 witness: the fourth insert, of "c" after cat, car and dog, has aborted
\* with IndexError; the three keys are still found and the root hash is the
\* digest of the root.
C29_Witness ==
    /\ impl = "eth_pat" /\ Len(calls) = 4
    /\ result.op = "insert" /\ result.raised = "IndexError"
    /\ calls[4].key = K_c /\ calls[4].raised = "IndexError"
    /\ \A i \in 1..3 : calls[i].raised = NoError
    /\ search(trie, K_cat).value = 100
    /\ search(trie, K_car).value = 200
    /\ search(trie, K_dog).value = 400
    /\ trie.hash = calculate_hash(trie.root)

\* get_stats, count_recursive (lines 560-582): the number of nodes reached
\* from node through the non-empty slots, node included
RECURSIVE count_recursive(_)
RECURSIVE CountSlots(_, _)
count_recursive(node) == 1 + CountSlots(node, 1)

\* the loop of count_recursive over node.branches, from slot i on
CountSlots(node, i) ==
    IF i > Len(node.branches) THEN 0
    ELSE (IF node.branches[i] = NoNode THEN 0
          ELSE count_recursive(node.branches[i])) + CountSlots(node, i + 1)

\* MerklePatriciaTrie17.get_stats: node_count is traversed, node_types is
\* read from the counters the inserts maintain
get_stats(t) ==
    [node_count |-> count_recursive(t.root),
     node_types |-> [branch    |-> t.stats.branch_nodes,
                     extension |-> t.stats.extension_nodes,
                     leaf      |-> t.stats.leaf_nodes]]

\* the number of nodes of one type reachable from node
RECURSIVE NodesOfType(_, _)
RECURSIVE SlotsOfType(_, _, _)
NodesOfType(node, type) ==
    (IF node.node_type = type THEN 1 ELSE 0) + SlotsOfType(node, 1, type)

SlotsOfType(node, i, type) ==
    IF i > Len(node.branches) THEN 0
    ELSE (IF node.branches[i] = NoNode THEN 0
          ELSE NodesOfType(node.branches[i], type)) + SlotsOfType(node, i + 1, type)

\* every insert call made so far has completed, and there is at least one
AllInsertsCompleted ==
    /\ calls # <<>>
    /\ \A i \in 1..Len(calls) : calls[i].raised = NoError

\* C30: after completed inserts on the trie of eth_pat.py, the branch,
\* extension and leaf counters that get_stats reports equal the numbers of
\* Branch, Extension and Leaf nodes reachable from the root, and their sum
\* equals the node_count that get_stats has traversed.
C30_StatsConsistent ==
    (impl = "eth_pat" /\ AllInsertsCompleted)
    => LET s == get_stats(trie)
       IN  /\ s.node_types.branch = NodesOfType(trie.root, "branch")
           /\ s.node_types.extension = NodesOfType(trie.root, "extension")
           /\ s.node_types.leaf = NodesOfType(trie.root, "leaf")
           /\ s.node_types.branch + s.node_types.extension + s.node_types.leaf
                = s.node_count

====
